---- MODULE Spec2Model ----
(***************************************************************************)
(* Flappy Bird Remix: the frame loop of components/FlappyBird.tsx (input,  *)
(* physics, pipe spawning, scoring, collisions, victory flyout, restart)   *)
(* as a state machine.                                                     *)
(*                                                                         *)
(* Numbers.  The code computes in floating point.  Here lengths and        *)
(* velocities are integers in hundredths of a pixel, the multipliers of    *)
(* the difficulty scaler are integers in hundredths, and times are         *)
(* integers in milliseconds.  Every product of the code is computed with   *)
(* one floor division at its end, so dt / 16.67 is dt * 100 / 1667.        *)
(***************************************************************************)
EXTENDS Integers, Sequences, FiniteSets, TLC

\* ------------------------------------------------------------------------
\* Program constants (FlappyBird.tsx lines 6-19)
\* ------------------------------------------------------------------------
BASE_WIDTH == 480
BASE_HEIGHT == 640
BASE_PIPE_WIDTH == 7000
BASE_GAP == 16000
PIPE_INTERVAL_MS == 1400
BASE_SPEED == 350
BASE_GRAVITY == 45
BASE_FLAP == 0 - 850
MAX_LEVEL == 8
SPEED_PER_LEVEL == 5
GRAVITY_PER_LEVEL == 4
GAP_REDUCTION_PER_LEVEL == 2
INTERVAL_REDUCTION_MS_PER_LEVEL == 50

\* Literals of the frame loop, named here
FINISH_PIPE == 90
MAX_DT == 32
FRAME_NORM == 1667
SPEED_MUL_CAP == 160
GRAVITY_MUL_CAP == 140
GAP_MUL_FLOOR == 65
MIN_INTERVAL_MS == 900
MIN_GAP == 6000
SPAWN_MARGIN == 8000
SPAWN_AHEAD == 2000
BIRD_RADIUS == 1200
BIRD_X_PCT == 25
FINISH_TOLERANCE == 5000
OFFSCREEN_MARGIN == 1000
FLYOUT_FLAP_INTERVAL == 250
FLYOUT_GRAVITY_MUL == 120
FLYOUT_SPEED_MUL == 160
FLYOUT_START_FLAP_PCT == 70
FLYOUT_FLAP_PCT == 90
VICTORY_DELAY_MS == 500
MAX_MUSIC_LEVEL == 8
MAX_BG_INDEX == 8

\* ------------------------------------------------------------------------
\* Bounds of the model
\* ------------------------------------------------------------------------
\* Milliseconds between two animation frames of a steadily running tab
\* (at or above the clamp, so every frame advances MAX_DT of motion).
SteadyGapMs == 32
\* Milliseconds between two frames of a stalled tab (longer than every
\* spawn interval).
StallGapMs == 1500
\* Frames the loop runs in one play session.
MaxFrames == 160
\* The player presses flap only on every FlapPeriod-th frame of a session.
FlapPeriod == 8
\* Number of positions in the spawn range the random gap position is drawn
\* from, minus one.
GapSteps == 1

Min(a, b) == IF a < b THEN a ELSE b
Max(a, b) == IF a > b THEN a ELSE b

\* ------------------------------------------------------------------------
\* Difficulty scaler
\* ------------------------------------------------------------------------
LevelUncapped(s) == s \div 10
\* Math.min(MAX_LEVEL, Math.floor(score / 10))
Level(s) == Min(MAX_LEVEL, s \div 10)
\* Math.min(1 + SPEED_PER_LEVEL * level, 1.6), in hundredths
SpeedMul(level) == Min(100 + SPEED_PER_LEVEL * level, SPEED_MUL_CAP)
\* Math.min(1 + GRAVITY_PER_LEVEL * level, 1.4), in hundredths
GravityMul(level) == Min(100 + GRAVITY_PER_LEVEL * level, GRAVITY_MUL_CAP)
\* Math.max(1 - GAP_REDUCTION_PER_LEVEL * level, 0.65), in hundredths
GapMul(level) == Max(100 - GAP_REDUCTION_PER_LEVEL * level, GAP_MUL_FLOOR)
\* Math.max(900, PIPE_INTERVAL_MS - INTERVAL_REDUCTION_MS_PER_LEVEL * level)
SpawnInterval(level) ==
    Max(MIN_INTERVAL_MS, PIPE_INTERVAL_MS - INTERVAL_REDUCTION_MS_PER_LEVEL * level)

\* ------------------------------------------------------------------------
\* Geometry, scaled to the canvas (w, h in pixels; results in 1/100 px)
\* ------------------------------------------------------------------------
\* BASE_PIPE_WIDTH * hScale
PipeWidth(h) == (BASE_PIPE_WIDTH * h) \div BASE_HEIGHT
\* Math.max(60 * hScale, BASE_GAP * hScale * gapMul)
Gap(h, level) ==
    Max((MIN_GAP * h) \div BASE_HEIGHT,
        (BASE_GAP * h * GapMul(level)) \div (BASE_HEIGHT * 100))
\* W * 0.25
BirdPosX(w) == BIRD_X_PCT * w
\* 12 * Math.min(wS, hS)
BirdR(w, h) == Min((BIRD_RADIUS * w) \div BASE_WIDTH, (BIRD_RADIUS * h) \div BASE_HEIGHT)
\* BASE_FLAP * hScale
FlapV(h) == (BASE_FLAP * h) \div BASE_HEIGHT
\* v * (dt / 16.67)
PerFrame(v, dt) == (v * dt * 100) \div FRAME_NORM
\* BASE_GRAVITY * hScale * gravityMul * (dt / 16.67)
GravityStep(h, mul, dt) == (BASE_GRAVITY * mul * h * dt) \div (BASE_HEIGHT * FRAME_NORM)
\* BASE_SPEED * speedMul * wScale * (dt / 16.67)
ScrollStep(w, mul, dt) == (BASE_SPEED * mul * w * dt) \div (BASE_WIDTH * FRAME_NORM)

\* ------------------------------------------------------------------------
\* State
\* ------------------------------------------------------------------------
VARIABLES
    widthRef, heightRef,      \* canvas size in pixels
    startScoreRef,            \* ?startScore= of the URL
    frameGap,                 \* ms between animation frames of this tab
    running, gameOver, gameWon,
    score,                    \* the score state and scoreRef
    birdY, birdV, birdX,
    pipes,                    \* sequence of Pipe records, oldest first; k, level and
                              \* warps are history: spawn ordinal, level when spawned,
                              \* times the warp sound was started for the pipe
    lastSpawnSet, sinceSpawn, \* lastSpawnAt # 0, and now - lastSpawnAt at the last frame
    pipeSpawnCount,
    victoryFlyout, victoryComplete,
    sinceFlyout,              \* now - victoryFlyoutStart at the last frame
    victoryTimer,             \* -1: no timer; else ms since setTimeout(..., 500)
    currentBgIndex,
    backgroundMusic,          \* [track |-> 0 (null) or 1..8, playing |-> BOOLEAN]
    currentMusicLevel,
    portalIdleSource,         \* the looping portal source node exists
    portalGain,               \* -1: no gain node; else gain.value in thousandths
    activePortal,             \* 0: null; else the pipe the warp sound fired for
    frames,                   \* frames run in this session
    spawned                   \* log of the pipes spawned since the last restart

gameVars == <<widthRef, heightRef, startScoreRef, frameGap, running, gameOver, gameWon,
              score, birdY, birdV, birdX, pipes, lastSpawnSet, sinceSpawn,
              pipeSpawnCount, victoryFlyout, victoryComplete, sinceFlyout,
              victoryTimer, currentBgIndex, backgroundMusic, currentMusicLevel,
              portalIdleSource, portalGain, activePortal, frames, spawned>>

\* The score server (app/api/scores): its configuration, its two stores, and
\* the last request it served with the response it gave
VARIABLES
    useKV,                    \* the KV environment is configured and @vercel/kv loaded
    scoresFile,               \* the array in data/scores.json
    kvUsers,                  \* KV keys scores:users:<id> |-> entry
    kvZset,                   \* KV sorted set scores:zset, member |-> score
    request, response,
    accepted,                 \* history: lower-cased id |-> the greatest score sent
                              \* for it in a POST answered 200 or 201, in hundredths
    handlers                  \* the POSTs in flight when requests overlap

serverVars == <<useKV, scoresFile, kvUsers, kvZset, request, response, accepted, handlers>>

\* The game-over form (lines 69-73) and the submission it has in flight
VARIABLES
    studentId, firstName, lastInitial,  \* the input fields, as texts
    requiresProfile, submitting,
    alert,                    \* the message of the last alert(), "" for none
    pending,                  \* the payload of the fetch in flight
    reply                     \* what the fetch comes back with

formVars == <<studentId, firstName, lastInitial, requiresProfile, submitting, alert,
              pending, reply>>

vars == <<gameVars, serverVars, formVars>>

canvasVars == <<widthRef, heightRef, startScoreRef, frameGap>>
audioVars == <<backgroundMusic, currentMusicLevel, portalIdleSource, portalGain,
               activePortal>>

NoMusic == [track |-> 0, playing |-> FALSE]

\* The sessions explored: <<startScore, frameGap>>
Sessions ==
    { <<8, SteadyGapMs>>, <<89, SteadyGapMs>>, <<88, StallGapMs>>, <<95, SteadyGapMs>> }

\* A field of a JSON body or of a query string: missing, or a text given as
\* the sequence of its characters
NoField == [present |-> FALSE, text |-> <<>>]
\* body.score: kind is "absent", "null", "number" (val in hundredths) or
\* "infinity" (a literal such as 1e999, which JSON.parse reads as Infinity)
NoScore == [kind |-> "absent", val |-> 0]
NoBody == [malformed |-> FALSE, id |-> NoField, score |-> NoScore,
           firstName |-> NoField, lastInitial |-> NoField]
NoRequest == [op |-> "none", body |-> NoBody, id |-> NoField]
\* fetch has not come back: status 0; a rejected fetch: failed
NoReply == [status |-> 0, failed |-> FALSE]
NoResponse == [op |-> "none", status |-> 0, body |-> "", exists |-> FALSE, entry |-> <<>>]
Nothing == [k \in {} |-> 0]

\* After mount: useRef/useState initial values (lines 33-106), then the
\* startScore effect (lines 158-173) for ?startScore=start.
Mounted(start, gap) ==
    /\ widthRef = BASE_WIDTH
    /\ heightRef = BASE_HEIGHT
    /\ startScoreRef = start
    /\ frameGap = gap
    /\ running = FALSE
    /\ gameOver = FALSE
    /\ gameWon = FALSE
    /\ score = start
    /\ birdY = (BASE_HEIGHT * 100) \div 2
    /\ birdV = 0
    /\ birdX = 0
    /\ pipes = <<>>
    /\ lastSpawnSet = FALSE
    /\ sinceSpawn = 0
    /\ pipeSpawnCount = 0
    /\ victoryFlyout = FALSE
    /\ victoryComplete = FALSE
    /\ sinceFlyout = 0
    /\ victoryTimer = -1
    /\ currentBgIndex = start \div 10
    /\ backgroundMusic = NoMusic
    /\ currentMusicLevel = -1
    /\ portalIdleSource = FALSE
    /\ portalGain = -1
    /\ activePortal = 0
    /\ frames = 0
    /\ spawned = <<>>
    /\ studentId = <<>>
    /\ firstName = <<>>
    /\ lastInitial = <<>>
    /\ requiresProfile = FALSE
    /\ submitting = FALSE
    /\ alert = ""
    /\ pending = NoBody
    /\ reply = NoReply

\* The server before its first request: scores.json as ensureDataFile
\* creates it (route.ts lines 25-34), an empty KV database
ServerStart(kvOn) ==
    /\ useKV = kvOn
    /\ scoresFile = <<>>
    /\ kvUsers = Nothing
    /\ kvZset = Nothing
    /\ request = NoRequest
    /\ response = NoResponse
    /\ accepted = Nothing
    /\ handlers = <<>>

Init == ServerStart(FALSE) /\ \E s \in Sessions : Mounted(s[1], s[2])

\* ------------------------------------------------------------------------
\* The mutable cells one frame reads and writes, as a record
\* ------------------------------------------------------------------------
Cells ==
    [ score |-> score, gameOver |-> gameOver, birdY |-> birdY, birdV |-> birdV,
      birdX |-> birdX, pipes |-> pipes, lastSpawnSet |-> lastSpawnSet,
      sinceSpawn |-> sinceSpawn, pipeSpawnCount |-> pipeSpawnCount,
      victoryFlyout |-> victoryFlyout, victoryComplete |-> victoryComplete,
      flyoutNow |-> FALSE, victoryTimer |-> victoryTimer,
      currentBgIndex |-> currentBgIndex, backgroundMusic |-> backgroundMusic,
      currentMusicLevel |-> currentMusicLevel,
      portalIdleSource |-> portalIdleSource, portalGain |-> portalGain,
      activePortal |-> activePortal, spawned |-> spawned ]

\* ------------------------------------------------------------------------
\* spawnPipe (lines 276-305)
\* ------------------------------------------------------------------------
PastFinishLate(next) == next > FINISH_PIPE + 1
\* nextAbsolutePipeNumber > 90: return
PastFinish(next) == next > FINISH_PIPE
\* absolutePipeNumber % 10 === 0
HasTrigger(n) == n % 10 = 0
\* absolutePipeNumber === 90
IsFinishLine(n) == n = FINISH_PIPE
\* 80 * hScale
Margin(h) == (SPAWN_MARGIN * h) \div BASE_HEIGHT
WholeCanvas(h, level) == Max(100, h * 100)
\* Math.max(1, H - GAP - margin * 2)
SpawnRange(h, level) == Max(100, h * 100 - Gap(h, level) - 2 * Margin(h))
\* Math.floor(Math.random() * range) + margin; the random draw is the g-th
\* of GapSteps + 1 evenly spread whole-pixel offsets of [0, range)
GapY(h, level, g) ==
    (((g * ((SpawnRange(h, level) - 1) \div 100)) \div GapSteps) * 100) + Margin(h)
\* W + 20 * wScale
SpawnX(w) == w * 100 + (SPAWN_AHEAD * w) \div BASE_WIDTH

RelativePipeNumber(start, count) == count
\* startScoreRef.current + pipeSpawnCount.current (lines 278, 298)
AbsolutePipeNumber(start, count) == start + count

SpawnPipe(st, g) ==
    IF PastFinish(AbsolutePipeNumber(startScoreRef, st.pipeSpawnCount + 1))
    THEN st
    ELSE LET count == st.pipeSpawnCount + 1
             n == AbsolutePipeNumber(startScoreRef, count)
             p == [ x |-> SpawnX(widthRef),
                    gapY |-> GapY(heightRef, Level(st.score), g),
                    passed |-> FALSE,
                    hasTrigger |-> HasTrigger(n),
                    isFinishLine |-> IsFinishLine(n),
                    k |-> Len(st.spawned) + 1,
                    level |-> Level(st.score),
                    warps |-> 0 ]
         IN  [st EXCEPT !.pipeSpawnCount = count,
                        !.pipes = Append(st.pipes, p),
                        !.spawned = Append(st.spawned, p)]

\* loop, spawn timing (lines 313-323)
SpawnStage(st, elapsed, g) ==
    LET since == IF st.lastSpawnSet THEN st.sinceSpawn + elapsed ELSE 0
        s1 == [st EXCEPT !.lastSpawnSet = TRUE, !.sinceSpawn = since]
    IN  IF since > SpawnInterval(Level(st.score))
        THEN [SpawnPipe(s1, g) EXCEPT !.sinceSpawn = 0]
        ELSE s1

\* loop, physics (lines 325-332)
Physics(st, dt) ==
    LET v == st.birdV + GravityStep(heightRef, GravityMul(Level(st.score)), dt)
    IN  [st EXCEPT !.birdV = v, !.birdY = st.birdY + PerFrame(v, dt)]

\* p.x + PIPE_WIDTH > -10 * wScale
OnScreen(p, w, h) == p.x + PipeWidth(h) > 0 - (OFFSCREEN_MARGIN * w) \div BASE_WIDTH

NeverFrozen(flyout) == FALSE
\* if (!victoryFlyoutRef.current) around the move (line 349)
Frozen(flyout) == flyout

\* loop, move pipes and remove offscreen (lines 341-357)
MovePipes(st, dt) ==
    LET dx == ScrollStep(widthRef, SpeedMul(Level(st.score)), dt)
        moved == IF Frozen(st.victoryFlyout)
                 THEN st.pipes
                 ELSE [i \in 1..Len(st.pipes) |-> [st.pipes[i] EXCEPT !.x = @ - dx]]
    IN  [st EXCEPT !.pipes = SelectSeq(moved, LAMBDA p : OnScreen(p, widthRef, heightRef))]

\* ------------------------------------------------------------------------
\* Portal sounds (lines 359-448).  The audio context, the idle buffer and
\* the warp sound are loaded.  gain.value read at a frame is the value the
\* last setTargetAtTime has led to one frame gap later.
\* ------------------------------------------------------------------------
PORTAL_FADE_PCT == 150
PORTAL_WARP_PCT == 30
PORTAL_MAX_VOLUME == 400
PORTAL_SILENT == 10
PORTAL_FADE_IN_MS == 100
PORTAL_FADE_OUT_MS == 150

\* portalCenterX - birdPosX
PortalDistance(p, w, h) == p.x + PipeWidth(h) \div 2 - BirdPosX(w)
IsPortalAhead(p, w, h) ==
    p.hasTrigger /\ ~p.isFinishLine /\ ~p.passed /\ PortalDistance(p, w, h) > 0
\* index of the nearest portal ahead of the bird, 0 when there is none
NearestPortal(ps, w, h) ==
    LET ahead == {i \in 1..Len(ps) : IsPortalAhead(ps[i], w, h)}
    IN  IF ahead = {} THEN 0
        ELSE CHOOSE i \in ahead :
                 \A j \in ahead :
                     \/ PortalDistance(ps[i], w, h) < PortalDistance(ps[j], w, h)
                     \/ (PortalDistance(ps[i], w, h) = PortalDistance(ps[j], w, h) /\ i <= j)
\* fadeVolume * 0.4, in thousandths
TargetVolume(d, h) ==
    LET fadeIn == (PipeWidth(h) * PORTAL_FADE_PCT) \div 100
        fade == Max(0, Min(1000, 1000 - (d * 1000) \div fadeIn))
    IN  (fade * PORTAL_MAX_VOLUME) \div 1000
\* gain.setTargetAtTime(target, now, tau), read one frame gap later
GainAfter(g, target, tau) == target + ((g - target) * tau) \div (tau + frameGap)

PortalStage(st) ==
    IF st.victoryFlyout THEN st
    ELSE LET i == NearestPortal(st.pipes, widthRef, heightRef) IN
         IF i # 0
         THEN LET d == PortalDistance(st.pipes[i], widthRef, heightRef)
                  target == TargetVolume(d, heightRef)
                  create == ~st.portalIdleSource /\ target > 0
                  g0 == IF create THEN 0 ELSE st.portalGain
                  warp == /\ d < (PipeWidth(heightRef) * PORTAL_WARP_PCT) \div 100
                          /\ st.activePortal # st.pipes[i].k
              IN  [st EXCEPT
                     !.portalIdleSource = st.portalIdleSource \/ create,
                     !.portalGain = IF g0 >= 0
                                    THEN GainAfter(g0, target, PORTAL_FADE_IN_MS)
                                    ELSE g0,
                     !.activePortal = IF warp THEN st.pipes[i].k ELSE @,
                     !.pipes = IF warp THEN [@ EXCEPT ![i].warps = @ + 1] ELSE @]
         ELSE IF st.portalGain >= 0 /\ st.portalIdleSource
              THEN IF st.portalGain > PORTAL_SILENT
                   THEN [st EXCEPT !.portalGain = GainAfter(@, 0, PORTAL_FADE_OUT_MS)]
                   ELSE [st EXCEPT !.portalIdleSource = FALSE,
                                   !.portalGain = -1,
                                   !.activePortal = 0]
              ELSE st

\* ------------------------------------------------------------------------
\* Scoring and collisions (lines 450-581)
\* ------------------------------------------------------------------------
NearFinishNever(p, w, h) == FALSE
\* p.x + PIPE_WIDTH < birdPosX + 50 * wS
NearFinish(p, w, h) ==
    p.x + PipeWidth(h) < BirdPosX(w) + (FINISH_TOLERANCE * w) \div BASE_WIDTH
\* p.x + PIPE_WIDTH < birdPosX
Behind(p, w, h) == p.x + PipeWidth(h) < BirdPosX(w)
NextScoreTwo(s) == s + 2
\* const ns = s + 1
NextScore(s) == s + 1
ScoresPlainOnly(p) == ~p.isFinishLine /\ ~p.hasTrigger
\* a pass scores unless the pipe is the finish line (line 477)
Scores(p) == ~p.isFinishLine
\* inPipeX (line 550)
InPipeX(p, w, h) ==
    /\ BirdPosX(w) + BirdR(w, h) > p.x
    /\ BirdPosX(w) - BirdR(w, h) < p.x + PipeWidth(h)
TopOnlyY(p, y, w, h, level) == y - BirdR(w, h) < p.gapY
\* topBottomY (line 551)
TopBottomY(p, y, w, h, level) ==
    \/ y - BirdR(w, h) < p.gapY
    \/ y + BirdR(w, h) > p.gapY + Gap(h, level)
BelowOnly(y, w, h) == y + BirdR(w, h) >= h * 100
\* birdY - r2 <= 0 || birdY + r2 >= H3 (line 577)
OutOfBounds(y, w, h) == y - BirdR(w, h) <= 0 \/ y + BirdR(w, h) >= h * 100

\* the setScore updater of a pass (lines 478-534)
ScoreUp(st) ==
    LET ns == NextScore(st.score)
        lvl == ns \div 10
        bg == IF lvl # st.currentBgIndex /\ lvl <= MAX_BG_INDEX
              THEN lvl ELSE st.currentBgIndex
        switch == lvl > 0 /\ lvl <= MAX_MUSIC_LEVEL /\ lvl # st.currentMusicLevel
    IN  [st EXCEPT !.score = ns,
                   !.currentBgIndex = bg,
                   !.backgroundMusic = IF switch THEN [track |-> lvl, playing |-> TRUE] ELSE @,
                   !.currentMusicLevel = IF switch THEN lvl ELSE @]

SpawnLevel(p, s) == p.level
\* the level the forEach body derives GAP from for pipe p (line 456)
CollisionLevel(p, s) == Level(s)

\* the body of pipes.current.forEach for the i-th pipe
ScanPipe(st, i) ==
    LET p == st.pipes[i]
        level == CollisionLevel(p, st.score)
        trigger == /\ p.isFinishLine /\ ~p.passed /\ ~st.victoryFlyout
                   /\ NearFinish(p, widthRef, heightRef)
        s1 == IF trigger
              THEN [st EXCEPT !.victoryFlyout = TRUE,
                              !.flyoutNow = TRUE,
                              !.birdX = BirdPosX(widthRef),
                              !.birdV = (FlapV(heightRef) * FLYOUT_START_FLAP_PCT) \div 100]
              ELSE st
        pass == ~p.passed /\ Behind(p, widthRef, heightRef)
        s2 == IF pass THEN [s1 EXCEPT !.pipes[i].passed = TRUE] ELSE s1
        s3 == IF pass /\ Scores(p) THEN ScoreUp(s2) ELSE s2
        hit == /\ ~s3.victoryFlyout
               /\ InPipeX(p, widthRef, heightRef)
               /\ TopBottomY(p, st.birdY, widthRef, heightRef, level)
    IN  IF hit THEN [s3 EXCEPT !.gameOver = TRUE] ELSE s3

RECURSIVE Scan(_, _)
Scan(st, i) == IF i > Len(st.pipes) THEN st ELSE Scan(ScanPipe(st, i), i + 1)

\* ceiling collision (lines 572-581)
Ceiling(st) ==
    IF ~st.victoryFlyout /\ OutOfBounds(st.birdY, widthRef, heightRef)
    THEN [st EXCEPT !.gameOver = TRUE]
    ELSE st

\* the update block of loop (lines 312-582)
Update(st, elapsed, dt, g) ==
    Ceiling(Scan(PortalStage(MovePipes(Physics(SpawnStage(st, elapsed, g), dt), dt)), 1))

\* ------------------------------------------------------------------------
\* Victory flyout (lines 584-646); t is now - victoryFlyoutStart
\* ------------------------------------------------------------------------
\* birdX > W + 50 * wScale
OffScreenRight(x, w) == x > w * 100 + (FINISH_TOLERANCE * w) \div BASE_WIDTH
\* currentFlapTime > lastFlapTime
AutoFlap(t, dt) ==
    (t \div FLYOUT_FLAP_INTERVAL) * FLYOUT_FLAP_INTERVAL
        > ((t - dt) \div FLYOUT_FLAP_INTERVAL) * FLYOUT_FLAP_INTERVAL

Flyout(st, t, dt) ==
    LET v0 == IF AutoFlap(t, dt)
              THEN (FlapV(heightRef) * FLYOUT_FLAP_PCT) \div 100
              ELSE st.birdV
        v == v0 + GravityStep(heightRef, FLYOUT_GRAVITY_MUL, dt)
        x == st.birdX + ScrollStep(widthRef, FLYOUT_SPEED_MUL, dt)
        s1 == [st EXCEPT !.birdV = v, !.birdY = st.birdY + PerFrame(v, dt), !.birdX = x]
    IN  IF OffScreenRight(x, widthRef)
        THEN [s1 EXCEPT !.victoryComplete = TRUE,
                        !.victoryFlyout = FALSE,
                        !.score = NextScore(st.score),
                        !.victoryTimer = 0]
        ELSE s1

\* ------------------------------------------------------------------------
\* Actions
\* ------------------------------------------------------------------------
UpdatingAlways(r, over) == ~over
\* if (runningRef.current && !gameOverRef.current) (line 312)
Updating(r, over) == r /\ ~over
\* if (victoryFlyoutRef.current && !victoryCompleteRef.current) (line 585)
FlyingOut(flyout, complete) == flyout /\ ~complete

\* the frame does more than draw
Active == Updating(running, gameOver) \/ FlyingOut(victoryFlyout, victoryComplete)

TwoFramesDt(elapsed) == Min(2 * MAX_DT, elapsed)
\* Math.min(32, now - lastTime) (line 308)
ClampedDt(elapsed) == Min(MAX_DT, elapsed)

\* loop (lines 307-646): one animation frame, frameGap ms after the last;
\* g is the random draw of a pipe spawned in it
FrameStep(g) ==
    /\ victoryTimer = -1 \/ victoryTimer + frameGap < VICTORY_DELAY_MS
    /\ Active => frames < MaxFrames
    /\ LET dt == ClampedDt(frameGap)
           s0 == [Cells EXCEPT !.victoryTimer = IF @ >= 0 THEN @ + frameGap ELSE @]
           s1 == IF Updating(running, gameOver) THEN Update(s0, frameGap, dt, g) ELSE s0
           t == IF s1.flyoutNow THEN 0 ELSE sinceFlyout + frameGap
           end == IF FlyingOut(s1.victoryFlyout, s1.victoryComplete) THEN Flyout(s1, t, dt) ELSE s1
       IN  \E s2 \in {end} :
           /\ score' = s2.score
           /\ gameOver' = s2.gameOver
           /\ birdY' = s2.birdY
           /\ birdV' = s2.birdV
           /\ birdX' = s2.birdX
           /\ pipes' = s2.pipes
           /\ lastSpawnSet' = s2.lastSpawnSet
           /\ sinceSpawn' = s2.sinceSpawn
           /\ pipeSpawnCount' = s2.pipeSpawnCount
           /\ victoryFlyout' = s2.victoryFlyout
           /\ victoryComplete' = s2.victoryComplete
           /\ sinceFlyout' = IF FlyingOut(s1.victoryFlyout, s1.victoryComplete) THEN t ELSE sinceFlyout
           /\ victoryTimer' = s2.victoryTimer
           /\ currentBgIndex' = s2.currentBgIndex
           /\ backgroundMusic' = s2.backgroundMusic
           /\ currentMusicLevel' = s2.currentMusicLevel
           /\ portalIdleSource' = s2.portalIdleSource
           /\ portalGain' = s2.portalGain
           /\ activePortal' = s2.activePortal
           /\ spawned' = s2.spawned
    /\ frames' = IF Active THEN frames + 1 ELSE frames
    /\ UNCHANGED <<serverVars, formVars, canvasVars, running, gameWon>>

Frame == \E g \in 0..GapSteps : FrameStep(g)

\* the music started by the first tap (lines 189-211)
StartsMusic(s, music) == s \div 10 > 0 /\ s \div 10 <= MAX_MUSIC_LEVEL /\ music.track = 0

\* flap (lines 175-230)
Flap ==
    /\ gameOver \/ ~running \/ frames % FlapPeriod = 0
    /\ LET starting == ~running /\ ~gameOver
           music == starting /\ StartsMusic(score, backgroundMusic)
       IN  /\ running' = (running \/ starting)
           /\ birdX' = IF starting THEN BirdPosX(widthRef) ELSE birdX
           /\ backgroundMusic' =
                  IF music THEN [track |-> score \div 10, playing |-> TRUE]
                  ELSE backgroundMusic
           /\ currentMusicLevel' = IF music THEN score \div 10 ELSE currentMusicLevel
           /\ birdV' = IF gameOver THEN birdV ELSE FlapV(heightRef)
    /\ UNCHANGED <<serverVars, formVars, canvasVars, gameOver, gameWon, score, birdY, pipes, lastSpawnSet,
                   sinceSpawn, pipeSpawnCount, victoryFlyout, victoryComplete,
                   sinceFlyout, victoryTimer, currentBgIndex, portalIdleSource,
                   portalGain, activePortal, frames, spawned>>

\* backgroundMusicRef after reset: paused, not released (lines 132-135)
StoppedMusic(music) == [music EXCEPT !.playing = FALSE]

\* reset (lines 108-155)
reset ==
    /\ score' = startScoreRef
    /\ gameOver' = FALSE
    /\ gameWon' = FALSE
    /\ running' = FALSE
    /\ birdY' = (heightRef * 100) \div 2
    /\ birdV' = 0
    /\ birdX' = 0
    /\ pipes' = <<>>
    /\ lastSpawnSet' = FALSE
    /\ sinceSpawn' = 0
    /\ pipeSpawnCount' = 0
    /\ victoryFlyout' = FALSE
    /\ sinceFlyout' = 0
    /\ victoryComplete' = FALSE
    /\ currentBgIndex' = startScoreRef \div 10
    /\ backgroundMusic' = StoppedMusic(backgroundMusic)
    /\ currentMusicLevel' = -1
    /\ portalIdleSource' = FALSE
    /\ portalGain' = IF portalGain >= 0 THEN 0 ELSE portalGain
    /\ activePortal' = 0
    /\ frames' = 0
    /\ spawned' = <<>>
    /\ studentId' = <<>>
    /\ firstName' = <<>>
    /\ lastInitial' = <<>>
    /\ requiresProfile' = FALSE
    /\ UNCHANGED <<canvasVars, victoryTimer>>

\* reset invoked by Enter or Skip while the game-over overlay shows
\* (lines 239-242, 1369)
Reset ==
    /\ gameOver
    /\ reset
    /\ UNCHANGED <<serverVars, submitting, alert, pending, reply>>

\* the setTimeout callback of the flyout (lines 640-644), due
\* VICTORY_DELAY_MS after it was set and before the next frame after that
VictoryTimeout ==
    /\ victoryTimer >= 0
    /\ victoryTimer + frameGap >= VICTORY_DELAY_MS
    /\ gameWon' = TRUE
    /\ gameOver' = TRUE
    /\ victoryTimer' = -1
    /\ UNCHANGED <<serverVars, formVars, canvasVars, running, score, birdY, birdV, birdX, pipes, lastSpawnSet,
                   sinceSpawn, pipeSpawnCount, victoryFlyout, victoryComplete,
                   sinceFlyout, currentBgIndex, audioVars, frames, spawned>>

Next == Frame \/ Flap \/ Reset \/ VictoryTimeout

Spec == Init /\ [][Next]_vars

\* ------------------------------------------------------------------------
\* The spawn rule alone, for every starting score
\* ------------------------------------------------------------------------
\* Largest ?startScore= explored by SpecSpawn
MaxStartScore == 100

InitSpawn == ServerStart(FALSE) /\ \E start \in 0..MaxStartScore : Mounted(start, SteadyGapMs)

\* one call of spawnPipe
SpawnOnly ==
    /\ \E st \in {SpawnPipe(Cells, 0)} :
           /\ pipes' = st.pipes
           /\ pipeSpawnCount' = st.pipeSpawnCount
           /\ spawned' = st.spawned
    /\ UNCHANGED <<serverVars, formVars, canvasVars, running, gameOver, gameWon, score, birdY, birdV, birdX,
                   lastSpawnSet, sinceSpawn, victoryFlyout, victoryComplete,
                   sinceFlyout, victoryTimer, currentBgIndex, audioVars, frames>>

NextSpawn == SpawnOnly

SpecSpawn == InitSpawn /\ [][NextSpawn]_vars

\* ------------------------------------------------------------------------
\* The difficulty scaler alone, for every pair of scores
\* ------------------------------------------------------------------------
\* Largest score explored by SpecDifficulty
MaxScore == 100

\* setScore((s) => s + 1) on its own
ScoreOnly ==
    /\ score < MaxScore
    /\ score' = NextScore(score)
    /\ UNCHANGED <<serverVars, formVars, canvasVars, running, gameOver, gameWon, birdY, birdV, birdX, pipes,
                   lastSpawnSet, sinceSpawn, pipeSpawnCount, victoryFlyout,
                   victoryComplete, sinceFlyout, victoryTimer, currentBgIndex,
                   audioVars, frames, spawned>>

NextDifficulty == ScoreOnly

SpecDifficulty == InitSpawn /\ [][NextDifficulty]_vars

\* ------------------------------------------------------------------------
\* The full-screen page: the canvas follows its container (lines 941-988)
\* ------------------------------------------------------------------------
\* Width of the container after the window is resized, in pixels
ResizedWidth == 360
\* Height of the container after the window is resized, in pixels
ResizedHeight == 700
\* The window is resized only on every ResizePeriod-th frame of a session.
ResizePeriod == 120

\* Math.round of the quotient a / b of two positive integers
RoundDiv(a, b) == (2 * a + b) \div (2 * b)

\* newW, newH of resizeToContainer for a container cw x ch (lines 946-960)
FitCanvas(cw, ch) ==
    LET w0 == RoundDiv(ch * BASE_WIDTH, BASE_HEIGHT)
    IN  IF w0 > cw
        THEN <<cw, RoundDiv(cw * BASE_HEIGHT, BASE_WIDTH)>>
        ELSE <<w0, ch>>

UnpassedCopy(p, newW, prevW, newH, prevH) ==
    [p EXCEPT !.x = (p.x * newW) \div prevW,
              !.gapY = (p.gapY * newH) \div prevH,
              !.passed = FALSE]
\* the record pipes.current.map builds for p (lines 968-974)
ResizedPipe(p, newW, prevW, newH, prevH) ==
    [p EXCEPT !.x = (p.x * newW) \div prevW,
              !.gapY = (p.gapY * newH) \div prevH]

\* resizeToContainer for a container cw x ch (lines 942-980).  The positions
\* are rescaled unless the canvas had no extent.  The rebuilt pipes are new
\* objects, so activePortalRef no longer refers to any of them (-1).
ResizeTo(cw, ch) ==
    /\ LET size == FitCanvas(cw, ch)
           newW == size[1]
           newH == size[2]
       IN  /\ widthRef' = newW
           /\ heightRef' = newH
           /\ IF widthRef # 0 /\ heightRef # 0
              THEN /\ birdY' = (birdY * newH) \div heightRef
                   /\ pipes' = [i \in 1..Len(pipes) |->
                                   ResizedPipe(pipes[i], newW, widthRef, newH, heightRef)]
              ELSE UNCHANGED <<birdY, pipes>>
    /\ activePortal' = IF activePortal = 0 THEN 0 ELSE -1
    /\ UNCHANGED <<serverVars, formVars, startScoreRef, frameGap, running, gameOver, gameWon, score, birdV,
                   birdX, lastSpawnSet, sinceSpawn, pipeSpawnCount, victoryFlyout,
                   victoryComplete, sinceFlyout, victoryTimer, currentBgIndex,
                   backgroundMusic, currentMusicLevel, portalIdleSource, portalGain,
                   frames, spawned>>

\* a resize event, from the canvas that fills the first container to the one
\* fitted to the resized container
resizeToContainer ==
    /\ widthRef = BASE_WIDTH
    /\ ResizeTo(ResizedWidth, ResizedHeight)

\* a resize event between frames, every ResizePeriod frames
Resize == frames % ResizePeriod = 0 /\ resizeToContainer

InitResize == ServerStart(FALSE) /\ Mounted(8, SteadyGapMs)

NextResize == Frame \/ Flap \/ Resize

SpecResize == InitResize /\ [][NextResize]_vars

\* ------------------------------------------------------------------------
\* A session that crosses a level boundary with pipes on screen
\* ------------------------------------------------------------------------
InitLevelUp == ServerStart(FALSE) /\ Mounted(9, SteadyGapMs)

NextLevelUp == Frame \/ Flap

SpecLevelUp == InitLevelUp /\ [][NextLevelUp]_vars

\* ------------------------------------------------------------------------
\* The full-screen page resized while a portal's warp sound has been started
\* ------------------------------------------------------------------------
ResizeAtPortal == activePortal > 0 /\ resizeToContainer

InitWarp == ServerStart(FALSE) /\ Mounted(8, SteadyGapMs)

NextWarp == Frame \/ Flap \/ ResizeAtPortal

SpecWarp == InitWarp /\ [][NextWarp]_vars

\* ------------------------------------------------------------------------
\* The spawn rule on canvases of every size: the canvas is fitted to a
\* container, then spawnPipe draws the gap
\* ------------------------------------------------------------------------
\* Containers <<clientWidth, clientHeight>> the canvas is fitted to
Containers ==
    { <<2000, 0>>, <<2000, 1>>, <<2000, 2>>, <<2000, 7>>, <<2000, 333>>,
      <<2000, 640>>, <<2000, 1080>>, <<360, 700>>, <<3, 900>> }
\* Pipes spawned per session by SpecGap
MaxSpawns == 2

\* a resize event for any of the containers, from the canvas of base size
ResizeAny ==
    /\ widthRef = BASE_WIDTH /\ heightRef = BASE_HEIGHT
    /\ \E c \in Containers : ResizeTo(c[1], c[2])

\* one call of spawnPipe with any random draw
SpawnAny ==
    /\ pipeSpawnCount < MaxSpawns
    /\ \E g \in 0..GapSteps :
         \E st \in {SpawnPipe(Cells, g)} :
           /\ pipes' = st.pipes
           /\ pipeSpawnCount' = st.pipeSpawnCount
           /\ spawned' = st.spawned
    /\ UNCHANGED <<serverVars, formVars, canvasVars, running, gameOver, gameWon, score, birdY, birdV, birdX,
                   lastSpawnSet, sinceSpawn, victoryFlyout, victoryComplete,
                   sinceFlyout, victoryTimer, currentBgIndex, audioVars, frames>>

NextGap == ResizeAny \/ SpawnAny

SpecGap == InitSpawn /\ [][NextGap]_vars

\* ------------------------------------------------------------------------
\* The score API (app/api/scores/route.ts; the variant with the KV backend
\* is the second file of app/page.tsx).  Texts are sequences of one-character
\* strings.  Entries are [id, firstName, lastInitial, score]; createdAt and
\* updatedAt are left out.  Requests are served one at a time, and reads and
\* writes of the store succeed.
\* ------------------------------------------------------------------------
LowerCase == << "a", "b", "c", "d", "e", "f", "g", "h", "i", "j", "k", "l", "m",
                "n", "o", "p", "q", "r", "s", "t", "u", "v", "w", "x", "y", "z" >>
UpperCase == << "A", "B", "C", "D", "E", "F", "G", "H", "I", "J", "K", "L", "M",
                "N", "O", "P", "Q", "R", "S", "T", "U", "V", "W", "X", "Y", "Z" >>
Digit == {"0", "1", "2", "3", "4", "5", "6", "7", "8", "9"}
WhiteSpace == {" ", "\t", "\n"}
Range(f) == {f[i] : i \in DOMAIN f}
Position(c, alphabet) == CHOOSE i \in DOMAIN alphabet : alphabet[i] = c
UpperCaseLetters == Range(UpperCase)
LowerCaseLetters == Range(LowerCase)
\* [A-Za-z0-9._-]
IdCharacters == UpperCaseLetters \cup LowerCaseLetters \cup Digit \cup {".", "_", "-"}

\* String.prototype.toLowerCase / toUpperCase
ToLowerCase(text) ==
    [i \in 1..Len(text) |->
        IF text[i] \in UpperCaseLetters THEN LowerCase[Position(text[i], UpperCase)]
        ELSE text[i]]
ToUpperCase(text) ==
    [i \in 1..Len(text) |->
        IF text[i] \in LowerCaseLetters THEN UpperCase[Position(text[i], LowerCase)]
        ELSE text[i]]

\* String.prototype.trim
RECURSIVE TrimStart(_)
TrimStart(text) ==
    IF Len(text) > 0 /\ Head(text) \in WhiteSpace THEN TrimStart(Tail(text)) ELSE text
RECURSIVE TrimEnd(_)
TrimEnd(text) ==
    IF Len(text) > 0 /\ text[Len(text)] \in WhiteSpace
    THEN TrimEnd(SubSeq(text, 1, Len(text) - 1))
    ELSE text
Trim(text) == TrimEnd(TrimStart(text))

\* (field ?? "").toString().trim()
Raw(field) == Trim(IF field.present THEN field.text ELSE <<>>)

\* /^[A-Za-z0-9._-]{2,40}$/.test(id), with the !id before it
MatchesAnything(id) == TRUE
MatchesIdPattern(id) ==
    /\ Len(id) >= 2
    /\ Len(id) <= 40
    /\ \A i \in 1..Len(id) : id[i] \in IdCharacters

\* Number(body.score): undefined gives NaN, null gives 0
ToNumber(field) ==
    CASE field.kind = "number" -> [finite |-> TRUE, val |-> field.val]
      [] field.kind = "null" -> [finite |-> TRUE, val |-> 0]
      [] OTHER -> [finite |-> FALSE, val |-> 0]

\* Number.isFinite(scoreRaw) && scoreRaw >= 0 && scoreRaw <= 1_000_000
InRange(scoreRaw) ==
    scoreRaw.finite /\ scoreRaw.val >= 0 /\ scoreRaw.val <= 1000000 * 100

\* Math.floor(scoreRaw)
Floor(scoreRaw) == scoreRaw.val \div 100

\* the key both backends compare ids by
ExactKey(id) == id
Key(id) == ToLowerCase(id)

\* scores.findIndex(s => s.id.toLowerCase() === id.toLowerCase()); 0 for -1
FindIndex(list, id) ==
    IF \E i \in 1..Len(list) : Key(list[i].id) = Key(id)
    THEN CHOOSE i \in 1..Len(list) :
            /\ Key(list[i].id) = Key(id)
            /\ \A j \in 1..(i - 1) : Key(list[j].id) # Key(id)
    ELSE 0

\* !firstNameRaw || !lastInitialRaw
ProfileNeverMissing(firstNameRaw, lastInitialRaw) == FALSE
ProfileMissing(firstNameRaw, lastInitialRaw) ==
    Len(firstNameRaw) = 0 \/ Len(lastInitialRaw) = 0

\* the entry of a first submission
NewEntry(id, scoreRaw, firstNameRaw, lastInitialRaw) ==
    [ id |-> id,
      firstName |-> SubSeq(firstNameRaw, 1, Min(40, Len(firstNameRaw))),
      lastInitial |-> ToUpperCase(SubSeq(lastInitialRaw, 1, Min(1, Len(lastInitialRaw)))),
      score |-> Floor(scoreRaw) ]

\* { ...existing, score: Math.max(existing.score ?? 0, newScore) }
Overwritten(existing, scoreRaw) == [existing EXCEPT !.score = Floor(scoreRaw)]
Updated(existing, scoreRaw) == [existing EXCEPT !.score = Max(@, Floor(scoreRaw))]

Put(map, k, v) == [x \in DOMAIN map \cup {k} |-> IF x = k THEN v ELSE map[x]]

Answer(status, body) ==
    [op |-> "POST", status |-> status, body |-> body, exists |-> FALSE, entry |-> <<>>]

\* What a POST leaves behind: the response and the two stores
Outcome(resp, file, users, zset) ==
    [response |-> resp, scoresFile |-> file, kvUsers |-> users, kvZset |-> zset]
Refused(resp) == Outcome(resp, scoresFile, kvUsers, kvZset)

\* POST on the KV backend
PostKV(id, scoreRaw, firstNameRaw, lastInitialRaw) ==
    IF Key(id) \in DOMAIN kvUsers
    THEN LET updated == Updated(kvUsers[Key(id)], scoreRaw)
         IN  Outcome(Answer(200, "updated"), scoresFile,
                     Put(kvUsers, Key(id), updated), Put(kvZset, Key(id), updated.score))
    ELSE IF ProfileMissing(firstNameRaw, lastInitialRaw)
    THEN Refused(Answer(409, "requiresProfile"))
    ELSE LET entry == NewEntry(id, scoreRaw, firstNameRaw, lastInitialRaw)
         IN  Outcome(Answer(201, "created"), scoresFile,
                     Put(kvUsers, Key(id), entry), Put(kvZset, Key(id), entry.score))

\* POST on the file backend
PostFile(id, scoreRaw, firstNameRaw, lastInitialRaw) ==
    LET idx == FindIndex(scoresFile, id)
    IN  IF idx > 0
        THEN Outcome(Answer(200, "updated"),
                     [scoresFile EXCEPT ![idx] = Updated(@, scoreRaw)], kvUsers, kvZset)
        ELSE IF ProfileMissing(firstNameRaw, lastInitialRaw)
        THEN Refused(Answer(409, "requiresProfile"))
        ELSE Outcome(Answer(201, "created"),
                     Append(scoresFile, NewEntry(id, scoreRaw, firstNameRaw, lastInitialRaw)),
                     kvUsers, kvZset)

\* POST: parsing, validation, then the backend
Handle(body) ==
    LET id == Raw(body.id)
        scoreRaw == ToNumber(body.score)
        firstNameRaw == Raw(body.firstName)
        lastInitialRaw == Raw(body.lastInitial)
    IN  IF body.malformed THEN Refused(Answer(400, "Bad request"))
        ELSE IF ~MatchesIdPattern(id) THEN Refused(Answer(400, "Invalid id"))
        ELSE IF ~InRange(scoreRaw) THEN Refused(Answer(400, "Invalid score"))
        ELSE IF useKV THEN PostKV(id, scoreRaw, firstNameRaw, lastInitialRaw)
        ELSE PostFile(id, scoreRaw, firstNameRaw, lastInitialRaw)

\* The bodies and queries explored
Text(present, text) == [present |-> present, text |-> text]
Repeated(c, n) == [i \in 1..n |-> c]
Number(val) == [kind |-> "number", val |-> val]
Ab == Text(TRUE, <<"a", "b">>)
Z40 == Text(TRUE, Repeated("z", 40))
Al == Text(TRUE, <<" ", "A", "l", " ">>)
Bo == Text(TRUE, <<"B", "o">>)
Xy == Text(TRUE, <<"x", "y">>)
Ten == Number(1000)
Body(id, sc, first, last) ==
    [malformed |-> FALSE, id |-> id, score |-> sc, firstName |-> first, lastInitial |-> last]
GoodIds == { Ab, Text(TRUE, <<"A", "b">>), Text(TRUE, <<" ", "a", "b", " ">>) }
BadIds ==
    { NoField, Text(TRUE, <<"a">>), Text(TRUE, <<"a", "!">>), Text(TRUE, Repeated("z", 41)) }
GoodScores ==
    { [kind |-> "null", val |-> 0], Ten, Number(4200), Number(4270), Number(9900),
      Number(1000000 * 100) }
BadScores ==
    { NoScore, [kind |-> "infinity", val |-> 0], Number(-100), Number(1000000 * 100 + 1) }
SampleProfiles ==
    { <<NoField, NoField>>, <<Text(TRUE, <<" ", " ">>), Text(TRUE, <<"b">>)>>, <<Al, Xy>> }
Bodies ==
    { [NoBody EXCEPT !.malformed = TRUE] }
    \cup { Body(i, sc, p[1], p[2]) : i \in GoodIds, sc \in GoodScores, p \in SampleProfiles }
    \cup { Body(Z40, Ten, NoField, NoField), Body(Z40, Ten, Bo, Xy) }
    \cup { Body(i, Ten, Al, Xy) : i \in BadIds }
    \cup { Body(Ab, sc, Al, Xy) : sc \in BadScores }
Queries == GoodIds \cup { Z40, Text(TRUE, <<"a">>) }

\* the history of accepted submissions after a POST
Noted(body, resp) ==
    IF resp.status \in {200, 201}
    THEN LET k == Key(Raw(body.id))
             v == ToNumber(body.score).val
         IN  Put(accepted, k, IF k \in DOMAIN accepted THEN Max(accepted[k], v) ELSE v)
    ELSE accepted

\* POST /api/scores
Post ==
    \E body \in Bodies :
       \E out \in {Handle(body)} :
          /\ request' = [op |-> "POST", body |-> body, id |-> NoField]
          /\ response' = out.response
          /\ scoresFile' = out.scoresFile
          /\ kvUsers' = out.kvUsers
          /\ kvZset' = out.kvZset
          /\ accepted' = Noted(body, out.response)
          /\ UNCHANGED <<gameVars, formVars, useKV, handlers>>

\* the entry GET ?id= finds, as a sequence of none or one
Lookup(idParam) ==
    IF useKV
    THEN IF Key(idParam) \in DOMAIN kvUsers THEN <<kvUsers[Key(idParam)]>> ELSE <<>>
    ELSE IF FindIndex(scoresFile, idParam) > 0
         THEN <<scoresFile[FindIndex(scoresFile, idParam)]>>
         ELSE <<>>

\* GET /api/scores?id=
Get ==
    \E q \in Queries :
       /\ request' = [op |-> "GET", body |-> NoBody, id |-> q]
       /\ response' = [op |-> "GET", status |-> 200, body |-> "lookup",
                       exists |-> Len(Lookup(q.text)) > 0, entry |-> Lookup(q.text)]
       /\ UNCHANGED <<gameVars, formVars, useKV, scoresFile, kvUsers, kvZset, accepted, handlers>>

\* `${firstName} ${lastInitial}`
DisplayName(e) == e.firstName \o <<" ">> \o e.lastInitial

\* String.prototype.localeCompare on texts of letters, digits, spaces and the
\* punctuation of ids: the characters are compared first without regard to
\* case, in the order of Collation; texts equal in that are ordered by the
\* first difference of case, lower case first.  Negative, 0 or positive.
Collation == << " ", "_", "-", "!", ".", "0", "1", "2", "3", "4", "5", "6", "7", "8", "9" >>
                 \o LowerCase
Weight(c) == Position(ToLowerCase(<<c>>)[1], Collation)
RECURSIVE CompareBy(_, _, _)
CompareBy(a, b, level) ==
    IF Len(a) = 0 \/ Len(b) = 0 THEN Len(a) - Len(b)
    ELSE LET x == IF level = 1 THEN Weight(Head(a))
                  ELSE IF Head(a) \in UpperCaseLetters THEN 1 ELSE 0
             y == IF level = 1 THEN Weight(Head(b))
                  ELSE IF Head(b) \in UpperCaseLetters THEN 1 ELSE 0
         IN  IF x # y THEN x - y ELSE CompareBy(Tail(a), Tail(b), level)
LocaleCompare(a, b) ==
    IF CompareBy(a, b, 1) # 0 THEN CompareBy(a, b, 1) ELSE CompareBy(a, b, 3)

\* the comparator of the file backend's sort is negative for (a, b)
SortsFirst(a, b) ==
    \/ a.score > b.score
    \/ a.score = b.score /\ LocaleCompare(DisplayName(a), DisplayName(b)) < 0

\* Array.prototype.sort with that comparator (stable)
Inserted(e, list) ==
    LET at == IF \E i \in 1..Len(list) : SortsFirst(e, list[i])
              THEN CHOOSE i \in 1..Len(list) :
                      /\ SortsFirst(e, list[i])
                      /\ \A j \in 1..(i - 1) : ~SortsFirst(e, list[j])
              ELSE Len(list) + 1
    IN  SubSeq(list, 1, at - 1) \o <<e>> \o SubSeq(list, at, Len(list))
RECURSIVE Sorted(_)
Sorted(list) ==
    IF Len(list) = 0 THEN <<>>
    ELSE Inserted(list[Len(list)], Sorted(SubSeq(list, 1, Len(list) - 1)))

\* the order of code units, which is the order of bytes for these characters
CodeUnits == << " ", "!", "-", ".", "0", "1", "2", "3", "4", "5", "6", "7", "8", "9" >>
                 \o UpperCase \o <<"_">> \o LowerCase
RECURSIVE BytesLess(_, _)
BytesLess(a, b) ==
    IF Len(b) = 0 THEN FALSE
    ELSE IF Len(a) = 0 THEN TRUE
    ELSE IF Head(a) # Head(b)
         THEN Position(Head(a), CodeUnits) < Position(Head(b), CodeUnits)
         ELSE BytesLess(Tail(a), Tail(b))

\* kv.zrange("scores:zset", 0, -1, { rev: true }): members from the highest
\* score to the lowest, members of equal score in descending byte order
RanksFirst(m, o) == kvZset[m] > kvZset[o] \/ (kvZset[m] = kvZset[o] /\ BytesLess(o, m))
RECURSIVE ZRangeRev(_)
ZRangeRev(members) ==
    IF members = {} THEN <<>>
    ELSE LET first == CHOOSE m \in members : \A o \in members \ {m} : RanksFirst(m, o)
         IN  <<first>> \o ZRangeRev(members \ {first})

\* the list GET without ?id= answers with
Listing ==
    IF useKV
    THEN LET ids == SelectSeq(ZRangeRev(DOMAIN kvZset), LAMBDA m : m \in DOMAIN kvUsers)
         IN  [i \in 1..Len(ids) |-> kvUsers[ids[i]]]
    ELSE Sorted(scoresFile)

\* GET /api/scores
GetList ==
    /\ request' = [op |-> "GET", body |-> NoBody, id |-> NoField]
    /\ response' = [op |-> "GET", status |-> 200, body |-> "list",
                    exists |-> FALSE, entry |-> Listing]
    /\ UNCHANGED <<gameVars, formVars, useKV, scoresFile, kvUsers, kvZset, accepted, handlers>>

InitScores == (\E kvOn \in BOOLEAN : ServerStart(kvOn)) /\ Mounted(0, SteadyGapMs)

NextScores == Post \/ Get \/ GetList

SpecScores == InitScores /\ [][NextScores]_vars

\* ------------------------------------------------------------------------
\* Properties
\* ------------------------------------------------------------------------
\* the pipe at position i after the step was unpassed before it and is passed now
JustPassed(i) ==
    /\ pipes'[i].passed
    /\ \E j \in DOMAIN pipes : pipes[j].k = pipes'[i].k /\ ~pipes[j].passed
PlainPasses ==
    Cardinality({i \in DOMAIN pipes' :
                    JustPassed(i) /\ ~pipes'[i].hasTrigger /\ ~pipes'[i].isFinishLine})
MilestonePasses ==
    Cardinality({i \in DOMAIN pipes' :
                    JustPassed(i) /\ pipes'[i].hasTrigger /\ ~pipes'[i].isFinishLine})
IsRestart == gameOver /\ ~gameOver'
FlyoutCompletes == ~victoryComplete /\ victoryComplete'
\* the right edge of pipe p is left of the bird's x position
RightEdgeBehindBird(p) ==
    p.x + (7000 * heightRef) \div 640 < (widthRef * 100) \div 4

\* C1: in every step, each pipe that is neither a milestone nor the finish
\* line and is marked passed in it adds exactly 1 to score (score' is score
\* plus the number of such passes when nothing else scores in the step); a
\* pipe is marked passed in the very frame that leaves its right edge behind
\* the bird; and score never decreases except by a restart.
C1_PlainPassScoresOne ==
    [][ /\ ~IsRestart => score' >= score + PlainPasses
        /\ (~IsRestart /\ MilestonePasses = 0 /\ ~FlyoutCompletes)
               => score' = score + PlainPasses
        /\ \A i \in DOMAIN pipes' : RightEdgeBehindBird(pipes'[i]) => pipes'[i].passed
      ]_vars
\* a plain pipe has been passed and has scored
C1_Witness ==
    /\ \E i \in DOMAIN pipes :
           pipes[i].passed /\ ~pipes[i].hasTrigger /\ ~pipes[i].isFinishLine
    /\ score = startScoreRef + 1

\* C2 as claimed: a step that marks a milestone pipe passed leaves score
\* unchanged.
C2_MilestoneKeepsScore == [][MilestonePasses > 0 => score' = score]_vars
\* C2 as amended: a step that marks milestone pipes passed (and no other
\* pipe, and does not complete the flyout) adds exactly 1 to score for each
\* of them, like any pipe that is not the finish line.
C2_MilestoneScoresOne ==
    [][ (MilestonePasses > 0 /\ PlainPasses = 0 /\ ~FlyoutCompletes)
            => score' = score + MilestonePasses ]_vars
\* the milestone pipe 10 has been passed and score is 10
C2_Witness ==
    /\ \E i \in DOMAIN pipes :
           pipes[i].passed /\ pipes[i].hasTrigger /\ ~pipes[i].isFinishLine
    /\ score = 10

\* C3: the k-th pipe spawned since the last restart is flagged milestone
\* iff (startScore + k) % 10 = 0 and finish line iff startScore + k = 90.
C3_SpawnFlags ==
    \A k \in 1..Len(spawned) :
        /\ spawned[k].hasTrigger <=> (startScoreRef + k) % 10 = 0
        /\ spawned[k].isFinishLine <=> startScoreRef + k = 90
\* starting at 85, the 5th pipe spawned is the finish line
C3_Witness ==
    /\ startScoreRef = 85
    /\ Len(spawned) = 5
    /\ spawned[5].isFinishLine
    /\ spawned[5].hasTrigger
    /\ ~spawned[4].isFinishLine

\* C4: no pipe with absolute index above 90 is ever spawned, at most one
\* finish line exists in a session, and it is the last pipe of the collection.
C4_NoSpawnPastFinish ==
    /\ \A k \in 1..Len(spawned) : startScoreRef + k <= 90
    /\ Cardinality({k \in 1..Len(spawned) : spawned[k].isFinishLine}) <= 1
    /\ \A i \in DOMAIN pipes : pipes[i].isFinishLine => i = Len(pipes)
\* a spawn attempt was made in this frame, after the finish line had been
\* spawned and had scrolled on, and added nothing
C4_Witness ==
    /\ running /\ ~gameOver /\ ~victoryFlyout
    /\ sinceSpawn = 0
    /\ Len(pipes) > 0
    /\ pipes[Len(pipes)].isFinishLine
    /\ pipes[Len(pipes)].x < widthRef * 100 - 2000

\* C5: with level = min(8, floor(score / 10)), for any two scores
\* startScoreRef <= score the level, the gravity multiplier and the speed
\* multiplier do not decrease and the spawn interval and the gap multiplier
\* do not increase; gravity <= 1.4, speed <= 1.6, interval >= 900 ms and gap
\* multiplier >= 0.65 always; and all of them are equal for scores >= 80.
C5_DifficultyMonotone ==
    LET l1 == Level(startScoreRef)
        l2 == Level(score)
    IN  /\ l2 = (IF score \div 10 < 8 THEN score \div 10 ELSE 8)
        /\ l1 <= l2
        /\ GravityMul(l1) <= GravityMul(l2)
        /\ SpeedMul(l1) <= SpeedMul(l2)
        /\ SpawnInterval(l1) >= SpawnInterval(l2)
        /\ GapMul(l1) >= GapMul(l2)
        /\ GravityMul(l2) <= 140
        /\ SpeedMul(l2) <= 160
        /\ SpawnInterval(l2) >= 900
        /\ GapMul(l2) >= 65
        /\ startScoreRef >= 80 =>
               /\ l1 = l2
               /\ GravityMul(l1) = GravityMul(l2)
               /\ SpeedMul(l1) = SpeedMul(l2)
               /\ SpawnInterval(l1) = SpawnInterval(l2)
               /\ GapMul(l1) = GapMul(l2)
\* two different scores of the clamped range have been compared, the second
\* one reached by scoring
C5_Witness == startScoreRef = 80 /\ score = 100 /\ Level(score) = 8

\* the bird's circle, as the claims describe it
BirdLeft == (widthRef * 100) \div 4 - BirdR(widthRef, heightRef)
BirdRight == (widthRef * 100) \div 4 + BirdR(widthRef, heightRef)
OverlapsX(p) ==
    BirdRight > p.x /\ BirdLeft < p.x + (7000 * heightRef) \div 640
OutsideBand(p, y, level) ==
    \/ y - BirdR(widthRef, heightRef) < p.gapY
    \/ y + BirdR(widthRef, heightRef) > p.gapY + Gap(heightRef, level)
InsideCanvas(y) ==
    /\ y - BirdR(widthRef, heightRef) > 0
    /\ y + BirdR(widthRef, heightRef) < heightRef * 100
\* a frame that runs the update and is outside the victory flyout
PlainFrame ==
    /\ running /\ ~gameOver
    /\ frames' = frames + 1
    /\ ~victoryFlyout /\ ~victoryFlyout'

\* C6: in a frame of a running session outside the victory flyout, with the
\* positions of the end of the frame: if the bird's circle overlaps the
\* horizontal extent of some pipe and reaches outside that pipe's gap band
\* (even the widest band of the frame, that of the level the frame began
\* with), the session is GameOver after the frame; if for every pipe it
\* overlaps the circle is within the band (even the narrowest band of the
\* frame, that of the level the frame ends with), and the circle is inside
\* the canvas, the frame does not end the session.
C6_CollisionRule ==
    [][ PlainFrame =>
          /\ (\E i \in DOMAIN pipes' :
                 /\ OverlapsX(pipes'[i])
                 /\ OutsideBand(pipes'[i], birdY', Level(score)))
               => gameOver'
          /\ ( /\ \A i \in DOMAIN pipes' :
                     OverlapsX(pipes'[i])
                         => ~OutsideBand(pipes'[i], birdY', Level(score'))
               /\ InsideCanvas(birdY') )
               => ~gameOver'
      ]_vars
\* the session ended on a pipe: the bird is inside the canvas, overlaps a
\* pipe horizontally and reaches outside its gap band
C6_Witness ==
    /\ gameOver /\ ~gameWon /\ ~victoryFlyout /\ ~victoryComplete
    /\ InsideCanvas(birdY)
    /\ \E i \in DOMAIN pipes :
           OverlapsX(pipes[i]) /\ OutsideBand(pipes[i], birdY, Level(score))

\* C7: at the end of every frame of a running session outside the victory
\* flyout that leaves the session Running and not GameOver, the bird's circle
\* lies strictly inside the canvas; the frame never moves the bird back in.
C7_InsideCanvas ==
    [][ (PlainFrame /\ running' /\ ~gameOver') => InsideCanvas(birdY') ]_vars
\* the bird left the canvas and that ended the session: no pipe is involved
\* and the position is the one the physics produced, outside the canvas
C7_Witness ==
    /\ gameOver /\ ~gameWon /\ ~victoryComplete /\ ~victoryFlyout
    /\ ~InsideCanvas(birdY)
    /\ \A i \in DOMAIN pipes : ~OverlapsX(pipes[i])

\* C8: while the session is NotStarted, a step that leaves it NotStarted
\* (a frame) changes neither the bird's position or velocity, nor the
\* pipes, the spawn count or the score; the only step that changes any of
\* them is the flap, which puts the session in Running with the flap
\* impulse as velocity.
C8_NotStartedIdle ==
    [][ (~running /\ ~gameOver) =>
          /\ ~running' => UNCHANGED <<birdY, birdV, birdX, pipes,
                                      pipeSpawnCount, score>>
          /\ running' =>
                /\ ~gameOver'
                /\ birdV' = FlapV(heightRef)
                /\ UNCHANGED <<birdY, pipes, pipeSpawnCount, score>>
      ]_vars
\* the first flap has put the session in Running; no frame has updated yet
C8_Witness ==
    /\ running /\ ~gameOver
    /\ frames = 0
    /\ birdV = FlapV(heightRef)
    /\ birdY = (heightRef * 100) \div 2
    /\ pipes = <<>>

\* C9 as claimed: once the session is GameOver, every step that leaves it
\* GameOver (flaps and frames) leaves score, bird position and velocity and
\* pipes unchanged, and the only step that leaves GameOver is the restart.
C9_GameOverFrozen ==
    [][ gameOver =>
          /\ gameOver' => UNCHANGED <<score, birdY, birdV, birdX, pipes>>
          /\ ~gameOver' => (~running' /\ pipes' = <<>> /\ score' = startScoreRef)
      ]_vars

\* C10 as claimed: a restart leaves the session as a fresh mount with the
\* same starting score leaves it, whatever preceded: NotStarted, no victory,
\* no flyout, no pipes, spawn count 0, score at the starting score, bird
\* centred at rest, no portal sound, no music held and no victory pending.
C10_RestartIsFresh ==
    [][ IsRestart =>
          /\ ~running' /\ ~gameOver' /\ ~gameWon'
          /\ ~victoryFlyout' /\ ~victoryComplete'
          /\ pipes' = <<>> /\ pipeSpawnCount' = 0
          /\ score' = startScoreRef
          /\ birdY' = (heightRef * 100) \div 2 /\ birdV' = 0
          /\ birdX' = 0
          /\ ~portalIdleSource'
          /\ backgroundMusic' = NoMusic /\ currentMusicLevel' = 0 - 1
          /\ victoryTimer' = 0 - 1
      ]_vars

\* C11 as claimed, its safety half: the victory flag is never set without
\* GameOver and never without a completed flyout in the current session.
C11_VictoryNeedsFlyout == gameWon => (gameOver /\ victoryComplete)

\* C12 as claimed: a session that has started the flyout (flag set, or
\* flyout completed, since the last restart) is in GameOver only with the
\* victory flag set.
C12_FlyoutEndsInVictory ==
    (gameOver /\ (victoryFlyout \/ victoryComplete)) => gameWon

\* C13: a frame of a running session that begins outside the flyout moves
\* every pipe it keeps to the left; while the flyout flag is set no step but
\* a restart changes the pipe collection (no pipe moves, none is removed,
\* none is spawned).
C13_PipesFreeze ==
    [][ /\ (running /\ ~gameOver /\ ~victoryFlyout /\ frames' = frames + 1) =>
              \A i \in DOMAIN pipes : \A j \in DOMAIN pipes' :
                  pipes'[j].k = pipes[i].k => pipes'[j].x < pipes[i].x
        /\ (victoryFlyout /\ ~IsRestart) =>
              /\ pipes' = pipes
              /\ pipeSpawnCount' = pipeSpawnCount
              /\ spawned' = spawned
      ]_vars
\* the flyout is under way: the bird has moved right of its fixed position
\* by more than one frame's worth while the finish line stays on screen
C13_Witness ==
    /\ victoryFlyout /\ ~victoryComplete /\ running /\ ~gameOver
    /\ birdX > (widthRef * 100) \div 4 + 5000
    /\ Len(pipes) > 0

\* passes of the finish line, and of any other pipe, in a step
FinishPasses ==
    Cardinality({i \in DOMAIN pipes' : JustPassed(i) /\ pipes'[i].isFinishLine})
OtherPasses ==
    Cardinality({i \in DOMAIN pipes' : JustPassed(i) /\ ~pipes'[i].isFinishLine})
FlyoutStarted == victoryFlyout \/ victoryComplete

\* C14: a step that marks the finish line passed adds nothing to score for
\* it; the finish line is marked passed only in a state where the flyout has
\* been initiated; and the frame that initiates the flyout (the approach
\* trigger) adds nothing to score for the finish line either.
C14_FinishNeverScores ==
    [][ /\ (FinishPasses > 0 /\ ~FlyoutCompletes) => score' = score + OtherPasses
        /\ (\E i \in DOMAIN pipes' : pipes'[i].isFinishLine /\ pipes'[i].passed)
               => FlyoutStarted'
        /\ (~victoryFlyout /\ victoryFlyout') => score' = score + OtherPasses
      ]_vars
\* the approach trigger has fired for the finish line, which is not marked
\* passed, and score is still that of the 89 pipes before it
C14_Witness ==
    /\ victoryFlyout /\ ~victoryComplete /\ ~gameOver
    /\ \E i \in DOMAIN pipes : pipes[i].isFinishLine /\ ~pipes[i].passed
    /\ score = 89

\* C15: over every step, resizes included, a pipe that is marked passed
\* stays marked passed; and score changes only by 1 for each pipe that the
\* step marks passed (and by the flyout's completion), so no pipe adds to
\* score twice.
C15_PassedOnce ==
    [][ /\ \A i \in DOMAIN pipes : \A j \in DOMAIN pipes' :
              (pipes'[j].k = pipes[i].k /\ pipes[i].passed) => pipes'[j].passed
        /\ ~IsRestart =>
              score' = score + OtherPasses + (IF FlyoutCompletes THEN 1 ELSE 0)
      ]_vars
\* on the resized canvas a pipe that had been passed is still marked passed
\* and has scored once, and frames have run since
C15_Witness ==
    /\ widthRef # 480
    /\ running /\ ~gameOver
    /\ score = startScoreRef + 1
    /\ \E i \in DOMAIN pipes : pipes[i].passed /\ pipes[i].x < 0

C17_BackgroundIndex ==
    currentBgIndex = (IF score \div 10 < 8 THEN score \div 10 ELSE 8)

\* ------------------------------------------------------------------------
\* The game-over form and submitScore (FlappyBird.tsx lines 1254-1289,
\* 1311-1385), against the server above.  The session played is one in which
\* the player starts and never flaps again.
\* ------------------------------------------------------------------------
TypedIds == { <<"a", "b">>, <<" ">>, <<"a", "!">> }
TypedNames == { <<"A", "l">>, <<" ">> }
TypedInitials == { <<"x">> }

\* onChange of the three inputs; the profile inputs show with requiresProfile
TypeId ==
    /\ gameOver
    /\ \E t \in TypedIds : studentId' = t
    /\ UNCHANGED <<gameVars, serverVars, firstName, lastInitial, requiresProfile,
                   submitting, alert, pending, reply>>
TypeProfile ==
    /\ gameOver /\ requiresProfile
    /\ \E t \in TypedNames, u \in TypedInitials : firstName' = t /\ lastInitial' = u
    /\ UNCHANGED <<gameVars, serverVars, studentId, requiresProfile, submitting, alert,
                   pending, reply>>

\* payload (lines 1261-1269)
Payload ==
    Body(Text(TRUE, Trim(studentId)), Number(score * 100),
         IF requiresProfile THEN Text(TRUE, Trim(firstName)) ELSE NoField,
         IF requiresProfile
         THEN Text(TRUE, ToUpperCase(SubSeq(Trim(lastInitial), 1, Min(1, Len(Trim(lastInitial))))))
         ELSE NoField)

\* submitScore up to the fetch (lines 1254-1274), on a click of the button
SubmitScore ==
    /\ gameOver /\ ~submitting
    /\ IF Len(Trim(studentId)) = 0
       THEN /\ alert' = "Please enter your Student ID or email prefix."
            /\ UNCHANGED <<submitting, pending, reply>>
       ELSE IF requiresProfile /\ (Len(Trim(firstName)) = 0 \/ Len(Trim(lastInitial)) = 0)
       THEN /\ alert' = "Please enter your first name and last initial."
            /\ UNCHANGED <<submitting, pending, reply>>
       ELSE /\ alert' = ""
            /\ submitting' = TRUE
            /\ pending' = Payload
            /\ reply' = NoReply
    /\ UNCHANGED <<gameVars, serverVars, studentId, firstName, lastInitial, requiresProfile>>

\* the request reaches the server, which handles it; the response comes back
\* or is lost on the way
Deliver ==
    /\ submitting /\ reply = NoReply
    /\ \E out \in {Handle(pending)}, lost \in BOOLEAN :
          /\ request' = [op |-> "POST", body |-> pending, id |-> NoField]
          /\ response' = out.response
          /\ scoresFile' = out.scoresFile
          /\ kvUsers' = out.kvUsers
          /\ kvZset' = out.kvZset
          /\ accepted' = Noted(pending, out.response)
          /\ reply' = [status |-> out.response.status, failed |-> lost]
    /\ UNCHANGED <<gameVars, useKV, handlers, studentId, firstName, lastInitial,
                   requiresProfile, submitting, alert, pending>>

\* the request never reaches the server: fetch rejects
Unreachable ==
    /\ submitting /\ reply = NoReply
    /\ reply' = [status |-> 0, failed |-> TRUE]
    /\ UNCHANGED <<gameVars, serverVars, studentId, firstName, lastInitial,
                   requiresProfile, submitting, alert, pending>>

\* res.status === 409 (line 1276)
NeverAsksProfile(status) == FALSE
AsksProfile(status) == status = 409
\* res.ok
Ok(status) == status >= 200 /\ status <= 299

\* submitScore after the fetch (lines 1275-1288)
Receive ==
    /\ submitting /\ reply # NoReply
    /\ submitting' = FALSE
    /\ pending' = NoBody
    /\ reply' = NoReply
    /\ IF reply.failed
       THEN /\ alert' = "Failed to fetch"
            /\ UNCHANGED <<gameVars, studentId, firstName, lastInitial, requiresProfile>>
       ELSE IF AsksProfile(reply.status)
       THEN /\ alert' = ""
            /\ requiresProfile' = TRUE
            /\ UNCHANGED <<gameVars, studentId, firstName, lastInitial>>
       ELSE IF ~Ok(reply.status)
       THEN /\ alert' = "Failed to submit score"
            /\ UNCHANGED <<gameVars, studentId, firstName, lastInitial, requiresProfile>>
       ELSE /\ alert' = ""
            /\ reset
    /\ UNCHANGED serverVars

InitSubmit == (\E kvOn \in BOOLEAN : ServerStart(kvOn)) /\ Mounted(8, SteadyGapMs)

NextSubmit ==
    \/ Frame
    \/ (~running /\ Flap)
    \/ Reset
    \/ TypeId
    \/ TypeProfile
    \/ SubmitScore
    \/ Deliver
    \/ Unreachable
    \/ Receive

SpecSubmit == InitSubmit /\ [][NextSubmit]_vars

\* ------------------------------------------------------------------------
\* POSTs in flight at once.  A handler runs until it awaits: it validates the
\* body and awaits the read of the store (readScores, kv.get); with what the
\* read returned it answers 409 or awaits the write (writeScores, kv.set and
\* kv.zadd); then it answers.
\* ------------------------------------------------------------------------
\* Most POSTs in flight at a time
MaxInFlight == 2
ConcurrentBodies ==
    { Body(i, sc, Al, Xy) : i \in {Ab, Z40}, sc \in {Ten, Number(4270)} }
    \cup { Body(Text(TRUE, <<"A", "b">>), Number(9900), NoField, NoField),
           Body(Text(TRUE, <<"a">>), Ten, Al, Xy) }

\* the checks before the first read of the store
Valid(body) ==
    /\ ~body.malformed
    /\ MatchesIdPattern(Raw(body.id))
    /\ InRange(ToNumber(body.score))

\* the file handler from the return of readScores on, scores being the array
\* it returned
AfterReadFile(scores, id, scoreRaw, firstNameRaw, lastInitialRaw) ==
    LET idx == FindIndex(scores, id)
    IN  IF idx > 0
        THEN Outcome(Answer(200, "updated"),
                     [scores EXCEPT ![idx] = Updated(@, scoreRaw)], kvUsers, kvZset)
        ELSE IF ProfileMissing(firstNameRaw, lastInitialRaw)
        THEN Refused(Answer(409, "requiresProfile"))
        ELSE Outcome(Answer(201, "created"),
                     Append(scores, NewEntry(id, scoreRaw, firstNameRaw, lastInitialRaw)),
                     kvUsers, kvZset)

\* the KV handler from the return of kv.get on, existing being none or the
\* one entry it returned
AfterGetKV(existing, id, scoreRaw, firstNameRaw, lastInitialRaw) ==
    IF Len(existing) > 0
    THEN LET updated == Updated(existing[1], scoreRaw)
         IN  Outcome(Answer(200, "updated"), scoresFile,
                     Put(kvUsers, Key(id), updated), Put(kvZset, Key(id), updated.score))
    ELSE IF ProfileMissing(firstNameRaw, lastInitialRaw)
    THEN Refused(Answer(409, "requiresProfile"))
    ELSE LET entry == NewEntry(id, scoreRaw, firstNameRaw, lastInitialRaw)
         IN  Outcome(Answer(201, "created"), scoresFile,
                     Put(kvUsers, Key(id), entry), Put(kvZset, Key(id), entry.score))

\* what a handler that has read the store goes on to do
Resume(h) ==
    IF useKV
    THEN AfterGetKV(h.existing, Raw(h.body.id), ToNumber(h.body.score),
                    Raw(h.body.firstName), Raw(h.body.lastInitial))
    ELSE AfterReadFile(h.scores, Raw(h.body.id), ToNumber(h.body.score),
                       Raw(h.body.firstName), Raw(h.body.lastInitial))

Without(seq, i) == SubSeq(seq, 1, i - 1) \o SubSeq(seq, i + 1, Len(seq))

\* a POST arrives: refused at once, or validated and waiting for its read
Begin ==
    /\ Len(handlers) < MaxInFlight
    /\ \E body \in ConcurrentBodies :
          /\ request' = [op |-> "POST", body |-> body, id |-> NoField]
          /\ IF Valid(body)
             THEN /\ handlers' = Append(handlers, [body |-> body, read |-> FALSE,
                                                  scores |-> <<>>, existing |-> <<>>])
                  /\ UNCHANGED response
             ELSE /\ response' = Handle(body).response
                  /\ UNCHANGED handlers
    /\ UNCHANGED <<gameVars, formVars, useKV, scoresFile, kvUsers, kvZset, accepted>>

\* the read of a handler returns; a new id without a profile is answered 409
ReadStore ==
    \E i \in 1..Len(handlers) :
       /\ ~handlers[i].read
       /\ LET id == Raw(handlers[i].body.id)
              h == [handlers[i] EXCEPT
                       !.read = TRUE,
                       !.scores = IF useKV THEN <<>> ELSE scoresFile,
                       !.existing = IF useKV /\ Key(id) \in DOMAIN kvUsers
                                    THEN <<kvUsers[Key(id)]>> ELSE <<>>]
          IN  IF Resume(h).response.status = 409
              THEN /\ response' = Resume(h).response
                   /\ handlers' = Without(handlers, i)
              ELSE /\ handlers' = [handlers EXCEPT ![i] = h]
                   /\ UNCHANGED response
       /\ UNCHANGED <<gameVars, formVars, useKV, scoresFile, kvUsers, kvZset, request, accepted>>

\* the write of a handler returns and the handler answers
WriteStore ==
    \E i \in 1..Len(handlers) :
       /\ handlers[i].read
       /\ \E out \in {Resume(handlers[i])} :
             /\ response' = out.response
             /\ scoresFile' = out.scoresFile
             /\ kvUsers' = out.kvUsers
             /\ kvZset' = out.kvZset
             /\ accepted' = Noted(handlers[i].body, out.response)
       /\ handlers' = Without(handlers, i)
       /\ UNCHANGED <<gameVars, formVars, useKV, request>>

NextConcurrent == Begin \/ ReadStore \/ WriteStore

SpecConcurrent == InitScores /\ [][NextConcurrent]_vars

\* ------------------------------------------------------------------------
\* The score API's contract
\* ------------------------------------------------------------------------
Store == <<scoresFile, kvUsers, kvZset>>
\* the stored entries of the backend in use, and the one stored under a key
Entries == IF useKV THEN Range(kvUsers) ELSE Range(scoresFile)
Count == IF useKV THEN Cardinality(DOMAIN kvUsers) ELSE Len(scoresFile)
Holds(k) == \E e \in Entries : Key(e.id) = k
Stored(k) == CHOOSE e \in Entries : Key(e.id) = k

\* ^[A-Za-z0-9._-]{2,40}$ read against a text
IsWellFormedId(text) ==
    /\ Len(text) \in 2..40
    /\ \A i \in 1..Len(text) :
          \/ \E j \in 1..26 : text[i] \in {UpperCase[j], LowerCase[j]}
          \/ text[i] \in Digit \cup {".", "_", "-"}
\* the id as sent, and as sent without the white space around it
IdAsSentOk(body) == body.id.present /\ IsWellFormedId(body.id.text)
IdTrimmedOk(body) == body.id.present /\ IsWellFormedId(Trim(body.id.text))
\* the score as sent is a finite number in [0, 1000000]; the same with null
\* counted as 0
ScoreAsSentOk(body) == body.score.kind = "number" /\ body.score.val \in 0..(1000000 * 100)
ScoreCoercedOk(body) == body.score.kind = "null" \/ ScoreAsSentOk(body)
Submitted(body) == IF body.score.kind = "number" THEN body.score.val ELSE 0
\* the step serves a POST of this body
PostOf(body) == request'.op = "POST" /\ request'.body = body
Passes(body) == ~body.malformed /\ IdTrimmedOk(body) /\ ScoreCoercedOk(body)
SentKey(body) == Key(Trim(body.id.text))
\* both profile fields are in the body; both are there and not blank
ProfileSent(body) == body.firstName.present /\ body.lastInitial.present
ProfileFilled(body) ==
    /\ ProfileSent(body)
    /\ Len(Trim(body.firstName.text)) > 0
    /\ Len(Trim(body.lastInitial.text)) > 0

C19_StoredIsMaxSubmitted ==
    [][ /\ \A body \in {request'.body} :
              (PostOf(body) /\ Passes(body) /\ Holds(SentKey(body))) =>
                 /\ response'.status = 200
                 /\ Holds(SentKey(body))'
                 /\ Stored(SentKey(body))'.score * 100 =
                       Max(Stored(SentKey(body)).score * 100, Submitted(body))
        /\ \A k \in DOMAIN accepted :
              Holds(k) => (Holds(k)' /\ Stored(k)'.score >= Stored(k).score)
        /\ \A k \in DOMAIN accepted' :
              Holds(k)' /\ Stored(k)'.score * 100 = accepted'[k]
        /\ \A q \in Queries :
              (request'.op = "GET" /\ request'.id = q /\ Holds(Key(q.text))) =>
                 (response'.exists /\ response'.entry = <<Stored(Key(q.text))>>) ]_vars

\* C19 as the code has it: the same with the submitted score rounded down to
\* a whole number before it is compared and stored.
C19_StoredIsMaxFloored ==
    [][ /\ \A body \in {request'.body} :
              (PostOf(body) /\ Passes(body) /\ Holds(SentKey(body))) =>
                 /\ response'.status = 200
                 /\ Holds(SentKey(body))'
                 /\ Stored(SentKey(body))'.score =
                       Max(Stored(SentKey(body)).score, Submitted(body) \div 100)
                 /\ Count' = Count
        /\ \A k \in DOMAIN accepted :
              Holds(k) => (Holds(k)' /\ Stored(k)'.score >= Stored(k).score)
        /\ \A k \in DOMAIN accepted' :
              Holds(k)' /\ Stored(k)'.score = accepted'[k] \div 100
        /\ \A q \in Queries :
              (request'.op = "GET" /\ request'.id = q /\ Holds(Key(q.text))) =>
                 (response'.exists /\ response'.entry = <<Stored(Key(q.text))>>) ]_vars

\* 10 submitted for an id whose entry holds 42, after 42.7 was accepted for it
C19_Witness ==
    /\ request.op = "POST"
    /\ request.body.score = Ten
    /\ response.status = 200
    /\ Holds(SentKey(request.body))
    /\ Stored(SentKey(request.body)).score = 42
    /\ accepted[SentKey(request.body)] = 4270

\* C20 as stated: a POST for an id that does not exist yet is answered
\* 409 {requiresProfile: true} and creates or changes nothing when firstName
\* or lastInitial is absent; when both are present it is answered 201 and
\* creates exactly one entry, with the submitted score.
C20_NewIdNeedsProfile ==
    [][ \A body \in {request'.body} :
           (PostOf(body) /\ Passes(body) /\ ~Holds(SentKey(body))) =>
              /\ ~ProfileSent(body) =>
                    (response'.status = 409 /\ response'.body = "requiresProfile"
                        /\ Store' = Store)
              /\ ProfileSent(body) =>
                    /\ response'.status = 201
                    /\ Count' = Count + 1
                    /\ Entries \subseteq Entries'
                    /\ Holds(SentKey(body))'
                    /\ Stored(SentKey(body))'.score * 100 = Submitted(body) ]_vars

\* C20 as the code has it: a profile field that is blank counts as absent,
\* and the entry is created with the submitted score rounded down to a whole
\* number.
C20_NewIdNeedsFilledProfile ==
    [][ \A body \in {request'.body} :
           (PostOf(body) /\ Passes(body) /\ ~Holds(SentKey(body))) =>
              /\ ~ProfileFilled(body) =>
                    (response'.status = 409 /\ response'.body = "requiresProfile"
                        /\ Store' = Store)
              /\ ProfileFilled(body) =>
                    /\ response'.status = 201
                    /\ Count' = Count + 1
                    /\ Entries \subseteq Entries'
                    /\ Holds(SentKey(body))'
                    /\ Stored(SentKey(body))'.score = Submitted(body) \div 100
                    /\ Stored(SentKey(body))'.id = Trim(body.id.text) ]_vars

\* a second id created with 42.7 submitted
C20_Witness ==
    /\ request.op = "POST"
    /\ request.body.score = Number(4270)
    /\ response.status = 201
    /\ Count = 2
    /\ Stored(SentKey(request.body)).score = 42

\* the step serves the list GET
ListServed == request'.op = "GET" /\ ~request'.id.present

\* C21: the list GET answers with every stored entry once, from the highest
\* score to the lowest, entries of equal score in the order of their display
\* names, on the file backend and on the KV backend.
C21_ListSorted ==
    [][ ListServed =>
          LET list == response'.entry
          IN  /\ Len(list) = Count
              /\ Range(list) = Entries
              /\ \A i, j \in 1..Len(list) :
                    i < j =>
                       /\ list[i].score >= list[j].score
                       /\ list[i].score = list[j].score =>
                             LocaleCompare(DisplayName(list[i]), DisplayName(list[j])) <= 0
      ]_vars

\* two texts are equal ignoring case
SameIgnoringCase(a, b) == ToLowerCase(a) = ToLowerCase(b)

\* C22: ids are a unique key compared without regard to case: no two stored
\* entries have ids equal ignoring case, a POST whose id differs only in case
\* from a stored id updates that entry and creates none, and GET ?id=X
\* answers with the entry whose id equals X ignoring case.
C22_IdsUniqueIgnoringCase ==
    [][ /\ \A a, b \in Entries' : SameIgnoringCase(a.id, b.id) => a = b
        /\ Count' = Cardinality(Entries')
        /\ \A body \in {request'.body} :
              (PostOf(body) /\ Passes(body)
                  /\ \E e \in Entries : SameIgnoringCase(e.id, Trim(body.id.text))) =>
                 (response'.status = 200 /\ Count' = Count
                     /\ {e.id : e \in Entries'} = {e.id : e \in Entries})
        /\ \A e \in Entries :
              (request'.op = "GET" /\ request'.id.present
                  /\ SameIgnoringCase(e.id, request'.id.text)) =>
                 (response'.exists /\ response'.entry = <<e>>) ]_vars

\* "Ab" submitted for the stored id "ab": answered 200, still one entry
C22_Witness ==
    /\ request.op = "POST"
    /\ request.body.id.text = <<"A", "b">>
    /\ response.status = 200
    /\ Count = 1
    /\ \E e \in Entries : e.id = <<"a", "b">>

\* ------------------------------------------------------------------------
\* The submit flow
\* ------------------------------------------------------------------------
\* the step is the one in which the fetch of submitScore comes back
Received == submitting /\ ~submitting'
\* it comes back as a failure: rejected, or neither OK nor 409
CameBackFailed == reply.failed \/ (reply.status \notin 200..299 /\ reply.status # 409)
CameBackOk == ~reply.failed /\ reply.status \in 200..299
fields == <<studentId, firstName, lastInitial>>
\* the step is the one in which the server handles the submission
Handled == submitting /\ reply = NoReply /\ reply'.status # 0

\* C23: a submission that comes back failed raises an alert and changes
\* neither the session (GameOver, score) nor the entered fields; a 409 raises
\* no alert and only makes the form require the profile fields; a submission
\* sent with the profile fields is never answered 409 and, when its id is
\* well formed, is answered 200 or 201; a submission that comes back OK
\* restarts the session and clears the form; and no step of the submit flow
\* other than that one takes the session out of GameOver.
C23_SubmitFlow ==
    [][ /\ (Received /\ CameBackFailed) =>
              (alert' # "" /\ UNCHANGED <<gameVars, fields, requiresProfile>>)
        /\ (Received /\ ~reply.failed /\ reply.status = 409) =>
              (alert' = "" /\ requiresProfile' /\ UNCHANGED <<gameVars, fields>>)
        /\ (Handled /\ pending.firstName.present) =>
              /\ response'.status # 409
              /\ IsWellFormedId(pending.id.text) => response'.status \in {200, 201}
        /\ (Received /\ CameBackOk) =>
              /\ alert' = ""
              /\ ~gameOver' /\ ~running' /\ score' = startScoreRef
              /\ studentId' = <<>> /\ firstName' = <<>> /\ lastInitial' = <<>>
              /\ ~requiresProfile'
        /\ (gameOver /\ ~gameOver' /\ <<submitting, alert, pending, reply>>' #
                                         <<submitting, alert, pending, reply>>) =>
              (Received /\ CameBackOk) ]_vars

\* restarted by the 201 that answered a resubmission with the profile fields
C23_Witness ==
    /\ request.op = "POST"
    /\ request.body.firstName.present
    /\ response.status = 201
    /\ ~submitting /\ ~gameOver /\ ~running
    /\ studentId = <<>>
    /\ alert = ""
    /\ Count = 1

\* C24: the warp sound is started at most once for an obstacle, over any
\* frames and canvas resizes.
C24_WarpOnce == \A i \in 1..Len(pipes) : pipes[i].warps <= 1

\* C25: while a session is Running, no track plays when the score is 0-9,
\* and when floor(score / 10) is k in 1..8 the track playing is track k.
C25_MusicFollowsLevel ==
    (running /\ ~gameOver) =>
        /\ score \div 10 = 0 => ~backgroundMusic.playing
        /\ score \div 10 \in 1..8 =>
              (backgroundMusic.playing /\ backgroundMusic.track = score \div 10)

\* C26: every obstacle is spawned with its gap inside the safe margin, at
\* every level and canvas height: gapY >= 80 * hScale and
\* gapY + gapHeight <= H - 80 * hScale.
C26_GapInsideMargin ==
    [][Len(spawned') = Len(spawned) + 1 =>
          LET p == spawned'[Len(spawned')]
          IN  /\ p.gapY >= Margin(heightRef)
              /\ p.gapY + Gap(heightRef, p.level) <= heightRef * 100 - Margin(heightRef)]_vars
\* an obstacle spawned at the top level on a resized canvas with the largest
\* random draw
C26_Witness ==
    /\ heightRef = 1080
    /\ \E i \in 1..Len(pipes) :
          /\ pipes[i].level = MAX_LEVEL
          /\ pipes[i].gapY > Margin(heightRef)
          /\ pipes[i].gapY + Gap(heightRef, MAX_LEVEL) + 100 > heightRef * 100 - Margin(heightRef)

\* C27 as claimed: in a session that starts at a score of at most 89, the
\* flyout, until it completes, runs with obstacles up to 89 scored (score
\* 89), and the victory flag is set only with score exactly 90.
C27_VictoryAtNinety ==
    startScoreRef <= FINISH_PIPE - 1 =>
        /\ (victoryFlyout /\ ~victoryComplete) => score = FINISH_PIPE - 1
        /\ gameWon => score = FINISH_PIPE

EntirelyAhead(p) == p.x >= BirdRight
EntirelyBehind(p) == p.x + PipeWidth(heightRef) <= BirdLeft
\* the furthest a pipe scrolls with MAX_DT of motion at the level of the frame
MaxScroll == ScrollStep(widthRef, SpeedMul(Level(score)), MAX_DT)

\* C28: a frame applies at most 32 ms of motion, whatever the time since the
\* previous frame: every pipe it keeps, and every pipe it spawns, has moved
\* left by at most the scroll of 32 ms; so a pipe entirely ahead of the
\* bird's circle before the frame is still there after it and is not
\* entirely behind the circle.
C28_NoTunnelling ==
    [][ frames' = frames + 1 =>
          /\ \A j \in 1..Len(pipes') :
                LET from == IF \E i \in 1..Len(pipes) : pipes[i].k = pipes'[j].k
                            THEN (CHOOSE i \in 1..Len(pipes) : pipes[i].k = pipes'[j].k)
                            ELSE 0
                    x0 == IF from = 0 THEN SpawnX(widthRef) ELSE pipes[from].x
                IN  x0 - pipes'[j].x <= MaxScroll
          /\ \A i \in 1..Len(pipes) :
                EntirelyAhead(pipes[i]) =>
                    \E j \in 1..Len(pipes') :
                        pipes'[j].k = pipes[i].k /\ ~EntirelyBehind(pipes'[j])
      ]_vars
\* in a tab whose frames come 1.5 s apart, a pipe that was spawned ahead of
\* the bird has reached the bird's circle and overlaps it horizontally
C28_Witness ==
    /\ frameGap > MAX_DT
    /\ running /\ ~victoryFlyout /\ ~victoryComplete
    /\ \E i \in 1..Len(pipes) : OverlapsX(pipes[i])

\* C29 as claimed: whenever no POST is in flight, every id that has had a
\* submission accepted has exactly one stored entry, and its score is the
\* largest of the accepted scores (rounded down); on the KV backend the
\* sorted set holds the same score.
C29_NoLostUpdate ==
    handlers = <<>> =>
        \A k \in DOMAIN accepted :
            /\ IF useKV
               THEN k \in DOMAIN kvUsers /\ k \in DOMAIN kvZset
                    /\ kvZset[k] = kvUsers[k].score
               ELSE Cardinality({i \in 1..Len(scoresFile) : Key(scoresFile[i].id) = k}) = 1
            /\ Holds(k) /\ Stored(k).score = accepted[k] \div 100

\* C30 as claimed: successive obstacles are separated by more than one
\* obstacle width, whatever the frame timestamps: each obstacle on screen is
\* further right than the one spawned before it by more than the pipe width.
C30_SpawnsApart ==
    \A i \in 1..(Len(pipes) - 1) :
        pipes[i + 1].x - pipes[i].x > PipeWidth(heightRef)
====
